---- MODULE Spec2Model ----
(***************************************************************************)
(* A model of three parts of simpsonw/atmosphere:                          *)
(*   - api/v2/serializers/details/image_bookmark.py: the bookmark          *)
(*     serializer's duplicate check (validate_image) and the insert that   *)
(*     follows a passed validation;                                        *)
(*   - core/tests/helpers.py: the get-or-create fixture factories and the  *)
(*     three helper classes built on them;                                 *)
(*   - core/admin.py: ApplicationAdmin.save_model, the durations           *)
(*     AllocationAdmin displays and the admin actions end_date_object and  *)
(*     private_object.                                                     *)
(* Each part has its own specification over its own variables; the other   *)
(* parts' variables stay at their initial values.                          *)
(***************************************************************************)
EXTENDS Integers, Sequences, FiniteSets, TLC

VARIABLES
    bookmarks,      \* the ImageBookmark table: a sequence of rows, id = index
    requests,       \* the bookmark-creation requests, in the order they began
    db,             \* the fixture database: one sequence of rows per model
    instHelpers,    \* the CoreInstanceHelper objects constructed so far
    statusHelpers,  \* the CoreStatusHistoryHelper objects constructed so far
    appHelpers,     \* the CoreApplicationHelper objects constructed so far
    uuids,          \* number of uuid4() values drawn so far
    calls,          \* number of helper constructions and factory calls so far
    pmLog,          \* the calls of _new_provider_machine, in order
    raised,         \* the exception the last fixture call raised, or "none"
    applications,   \* admin: the Application table, by primary key
    metadata,       \* admin: what save_app_to_metadata last wrote, by key
    logged,         \* admin: number of logger.exception records
    adminOp,        \* admin: the last save_model call and its outcome
    allocation,     \* admin: the Allocation the list page shows
    display,        \* admin: the column last rendered for it, and its text
    records,        \* admin: the table of a model that has the two actions
    now,            \* admin: the current time, what timezone.now() returns
    adminAction     \* admin: the last action run and the selection it had

bookmarkVars == <<bookmarks, requests>>
fixtureVars == <<db, instHelpers, statusHelpers, appHelpers, uuids, calls,
                 pmLog, raised>>
allocationVars == <<allocation, display>>
actionVars == <<records, now, adminAction>>
adminVars == <<applications, metadata, logged, adminOp, allocationVars,
               actionVars>>
vars == <<bookmarks, requests, db, instHelpers, statusHelpers, appHelpers,
          uuids, calls, pmLog, raised, applications, metadata, logged,
          adminOp, allocation, display, records, now, adminAction>>

\* Python's None, where a string or a key is expected.
None == "None"
NoId == 0

(***************************************************************************)
(* Django ORM lookups, as the source uses them.  A row matches the keyword *)
(* arguments when it agrees with them on every field they name.            *)
(***************************************************************************)
Matches(row, kw) ==
    \A f \in DOMAIN kw : row[f] = kw[f]

Matching(rows, kw) ==
    {i \in 1..Len(rows) : Matches(rows[i], kw)}

\* Manager.get(**kw): the one matching row, or DoesNotExist, or
\* MultipleObjectsReturned.
ObjectsGet(rows, kw) ==
    LET m == Matching(rows, kw) IN
    IF m = {} THEN [raised |-> "DoesNotExist", id |-> NoId]
    ELSE IF Cardinality(m) = 1
         THEN [raised |-> "none", id |-> CHOOSE i \in m : TRUE]
         ELSE [raised |-> "MultipleObjectsReturned", id |-> NoId]

(***************************************************************************)
(* Part 1: the bookmark serializer.                                        *)
(***************************************************************************)
Images == {"img1", "img2"}
Users == {"userA", "userB"}
MaxRequests == 3

\* A faulty validate_image that looks the bookmark up by image alone.
validate_image_AnyUser(rows, value, user) ==
    LET got == ObjectsGet(rows, [application |-> value]) IN
    IF got.raised = "none"
    THEN [raised |-> "ValidationError", ret |-> None]
    ELSE IF got.raised = "DoesNotExist"
         THEN [raised |-> "none", ret |-> value]
         ELSE [raised |-> got.raised, ret |-> None]

\* A faulty validate_image that never rejects.
validate_image_NoCheck(rows, value, user) ==
    [raised |-> "none", ret |-> value]

\* ImageBookmarkSerializer.validate_image(value), with user the requester of
\* self.context['request'].  The try block raises ValidationError when get()
\* returns; only DoesNotExist is caught, so MultipleObjectsReturned leaves the
\* method as it is.
validate_image(rows, value, user) ==
    LET got == ObjectsGet(rows, [application |-> value, user |-> user]) IN
    IF got.raised = "none"
    THEN [raised |-> "ValidationError", ret |-> None]
    ELSE IF got.raised = "DoesNotExist"
         THEN [raised |-> "none", ret |-> value]
         ELSE [raised |-> got.raised, ret |-> None]

\* The state a request is left in by validate_image's outcome.
AfterValidation(out) ==
    IF out.raised = "none" THEN "validated"
    ELSE IF out.raised = "ValidationError" THEN "rejected"
    ELSE "error"

\* The request validate_image's outcome makes.  seen and matches are
\* history: the number of bookmarks in the table when validate_image ran,
\* and how many of them were of this image by this user.
Validated(i, u, out) ==
    [image |-> i, user |-> u, state |-> AfterValidation(out),
     raised |-> out.raised, ret |-> out.ret, inserted |-> NoId,
     seen |-> Len(bookmarks),
     matches |-> Cardinality(Matching(bookmarks,
                     [application |-> i, user |-> u]))]

\* A request by user u for image i runs validate_image.
Validate(i, u) ==
    /\ Len(requests) < MaxRequests
    /\ requests' = Append(requests,
                          Validated(i, u, validate_image(bookmarks, i, u)))
    /\ UNCHANGED bookmarks
    /\ UNCHANGED <<fixtureVars, adminVars>>

\* A request whose validation passed saves the bookmark (application = the
\* validated image, user = the requester).
Insert(k) ==
    /\ k \in 1..Len(requests)
    /\ requests[k].state = "validated"
    /\ bookmarks' = Append(bookmarks,
           [application |-> requests[k].ret, user |-> requests[k].user])
    /\ requests' = [requests EXCEPT ![k].state = "created",
                                    ![k].inserted = Len(bookmarks) + 1]
    /\ UNCHANGED <<fixtureVars, adminVars>>

\* No request is between its validation and its insert.
NoneInFlight ==
    \A k \in 1..Len(requests) : requests[k].state # "validated"

\* The same request, begun only when every earlier one has finished.
ValidateInTurn(i, u) ==
    /\ NoneInFlight
    /\ Validate(i, u)

(***************************************************************************)
(* Part 2: the fixture factories of core/tests/helpers.py.                 *)
(*                                                                         *)
(* A factory runs on a world w = [tables, uuids, log, raised]: the         *)
(* database tables, the number of uuid4() values drawn, the log of         *)
(* _new_provider_machine calls and the exception in flight ("none" when    *)
(* there is none).  A function body is the composition of its statements,  *)
(* each an operator on the frame f of the call: the world f.w and the      *)
(* function's arguments and local variables.  A statement reached with an  *)
(* exception in flight does nothing: the exception has already left the    *)
(* function.                                                               *)
(***************************************************************************)
Tables == {"PlatformType", "ProviderType", "Provider", "AtmosphereUser",
           "Group", "Quota", "Identity", "IdentityMembership", "Application",
           "ApplicationVersion", "InstanceSource", "ProviderMachine", "Size",
           "Instance"}

EmptyDb == [t \in Tables |-> << >>]

World == [tables |-> db, uuids |-> uuids, log |-> pmLog, raised |-> "none"]

\* The statement g, skipped when an exception is in flight in frame f.
Then(f, g) == IF f.w.raised # "none" THEN f ELSE g

\* var = r, where r = [w, id] is the result of a database call.
Assign(f, var, r) == [f EXCEPT !.w = r.w, ![var] = r.id]

\* A faulty get_or_create that always creates.
AlwaysCreate(w, tbl, kw) ==
    IF w.raised # "none" THEN [w |-> w, id |-> NoId]
    ELSE [w |-> [w EXCEPT !.tables[tbl] = Append(@, kw)],
          id |-> Len(w.tables[tbl]) + 1]

\* What get_or_create makes of the outcome of get(**kw).
OrCreate(w, tbl, kw, got) ==
    IF got.raised = "none" THEN [w |-> w, id |-> got.id]
    ELSE IF got.raised = "DoesNotExist"
         THEN [w |-> [w EXCEPT !.tables[tbl] = Append(@, kw)],
               id |-> Len(w.tables[tbl]) + 1]
         ELSE [w |-> [w EXCEPT !.raised = got.raised], id |-> NoId]

\* Manager.get_or_create(**kw)[0]: get(**kw), and create(**kw) on
\* DoesNotExist.
GetOrCreate(w, tbl, kw) ==
    IF w.raised # "none" THEN [w |-> w, id |-> NoId]
    ELSE OrCreate(w, tbl, kw, ObjectsGet(w.tables[tbl], kw))

(***************************************************************************)
(* _new_providers()                                                        *)
(***************************************************************************)
np_kvm(f) ==
    Assign(f, "kvm", GetOrCreate(f.w, "PlatformType", [name |-> "KVM"]))

np_openstack_type(f) ==
    Assign(f, "openstack_type",
           GetOrCreate(f.w, "ProviderType", [name |-> "OpenStack"]))

np_openstack(f) ==
    Assign(f, "openstack", GetOrCreate(f.w, "Provider",
        [location |-> "Example OpenStack - Tucson",
         virtualization |-> f.kvm, type |-> f.openstack_type,
         public |-> TRUE]))

np_openstack_workshop(f) ==
    Assign(f, "openstack_workshop", GetOrCreate(f.w, "Provider",
        [location |-> "Example OpenStack - Workshop",
         virtualization |-> f.kvm, type |-> f.openstack_type,
         public |-> TRUE]))

np_return(f) ==
    [w |-> f.w,
     ret |-> [openstack |-> f.openstack, workshop |-> f.openstack_workshop]]

\* _new_providers(): the registry of the two example providers.
new_providers(w) ==
    np_return(np_openstack_workshop(np_openstack(np_openstack_type(np_kvm(
        [w |-> w, kvm |-> NoId, openstack_type |-> NoId, openstack |-> NoId,
         openstack_workshop |-> NoId])))))

(***************************************************************************)
(* _new_mock_identity_member(username, provider)                           *)
(***************************************************************************)
\* Quota.default_quota(): the one default quota row, made on first use.
default_quota(w) ==
    GetOrCreate(w, "Quota", [default |-> TRUE])

im_mock_user(f) ==
    Assign(f, "mock_user",
           GetOrCreate(f.w, "AtmosphereUser", [username |-> f.username]))

im_mock_group(f) ==
    Assign(f, "mock_group", GetOrCreate(f.w, "Group", [name |-> f.username]))

im_mock_quota(f) ==
    Assign(f, "mock_quota", default_quota(f.w))

im_mock_identity(f) ==
    Assign(f, "mock_identity", GetOrCreate(f.w, "Identity",
        [created_by |-> f.mock_user, quota |-> f.mock_quota,
         provider |-> f.provider]))

im_mock_identity_member(f) ==
    Assign(f, "mock_identity_member", GetOrCreate(f.w, "IdentityMembership",
        [identity |-> f.mock_identity, member |-> f.mock_group]))

im_return(f) ==
    [w |-> f.w, ret |-> f.mock_identity_member]

\* _new_mock_identity_member(username, provider): returns the membership.
new_mock_identity_member(w, username, provider) ==
    im_return(im_mock_identity_member(im_mock_identity(im_mock_quota(
        im_mock_group(im_mock_user(
        [w |-> w, username |-> username, provider |-> provider,
         mock_user |-> NoId, mock_group |-> NoId, mock_quota |-> NoId,
         mock_identity |-> NoId, mock_identity_member |-> NoId]))))))

(***************************************************************************)
(* _new_provider_machine(name, version, identity, identifier=None)         *)
(*                                                                         *)
(* Identifiers are integers.  uuid4() returns a value never returned       *)
(* before (the n-th call returns n); the identifiers a caller passes are   *)
(* taken from a set apart from these.  NoIdentifier is the default, None.  *)
(***************************************************************************)
NoIdentifier == 0
ExplicitIdentifiers == {1001}

\* identity.created_by and identity.provider
IdentityCreatedBy(f) == f.w.tables["Identity"][f.identity].created_by
IdentityProvider(f) == f.w.tables["Identity"][f.identity].provider

\* if not identifier: identifier = uuid4()
pm_identifier(f) ==
    IF f.identifier = NoIdentifier
    THEN [f EXCEPT !.identifier = f.w.uuids + 1, !.w.uuids = @ + 1]
    ELSE f

\* description is 'Mock Test Application named %s' % name, kept as the pair
\* of the format and its argument.
pm_app(f) ==
    Assign(f, "app", GetOrCreate(f.w, "Application",
        [name |-> f.name,
         description |-> <<"Mock Test Application named %s", f.name>>,
         created_by |-> IdentityCreatedBy(f),
         created_by_identity |-> f.identity, uuid |-> f.identifier]))

pm_application_version(f) ==
    Assign(f, "application_version", GetOrCreate(f.w, "ApplicationVersion",
        [application |-> f.app, name |-> f.version,
         change_log |-> "Mock Version", created_by |-> IdentityCreatedBy(f),
         created_by_identity |-> f.identity]))

pm_source(f) ==
    Assign(f, "source", GetOrCreate(f.w, "InstanceSource",
        [provider |-> IdentityProvider(f),
         created_by |-> IdentityCreatedBy(f),
         created_by_identity |-> f.identity, identifier |-> f.identifier]))

pm_machine(f) ==
    Assign(f, "machine", GetOrCreate(f.w, "ProviderMachine",
        [application_version |-> f.application_version,
         instance_source |-> f.source]))

\* The rows of the four tables _new_provider_machine writes to.
MachineRows(w) ==
    Len(w.tables["Application"]) + Len(w.tables["ApplicationVersion"])
    + Len(w.tables["InstanceSource"]) + Len(w.tables["ProviderMachine"])

\* return machine.  The call is appended to the log: its arguments, the
\* machine returned and the number of rows the call added.
pm_return(f, identifier, rows) ==
    [w |-> [f.w EXCEPT !.log = Append(@,
               [name |-> f.name, version |-> f.version,
                identity |-> f.identity, identifier |-> identifier,
                ret |-> f.machine, added |-> MachineRows(f.w) - rows])],
     ret |-> f.machine]

new_provider_machine(w, name, version, identity, identifier) ==
    pm_return(pm_machine(pm_source(pm_application_version(pm_app(
        pm_identifier(
        [w |-> w, name |-> name, version |-> version, identity |-> identity,
         identifier |-> identifier, app |-> NoId,
         application_version |-> NoId, source |-> NoId,
         machine |-> NoId]))))), identifier, MachineRows(w))

(***************************************************************************)
(* CoreInstanceHelper.  An attribute not yet assigned holds NoId (or None, *)
(* or the empty registry).  ret and again are history: the Instance that   *)
(* to_core_instance last returned for the machine now selected (NoId when  *)
(* it was not called since the machine was selected), and whether it was   *)
(* called more than once since then.                                       *)
(***************************************************************************)
EmptyRegistry == [x \in {} |-> NoId]

BlankInstanceHelper ==
    [name |-> None, provider_alias |-> None, start_date |-> 0,
     AVAILABLE_PROVIDERS |-> EmptyRegistry, provider |-> NoId,
     identity |-> NoId, user |-> NoId,
     AVAILABLE_MACHINES |-> EmptyRegistry, machine |-> NoId,
     ret |-> NoId, again |-> FALSE]

\* A method's outcome r = [raised, self] taken into the caller's frame.
Called(f, r) == [f EXCEPT !.self = r.self, !.w.raised = r.raised]

\* A faulty set_provider that falls back to 'openstack'.
set_provider_Default(self, provider) ==
    IF provider \notin DOMAIN self.AVAILABLE_PROVIDERS
    THEN [raised |-> "none",
          self |-> [self EXCEPT
                      !.provider = self.AVAILABLE_PROVIDERS["openstack"]]]
    ELSE [raised |-> "none",
          self |-> [self EXCEPT
                      !.provider = self.AVAILABLE_PROVIDERS[provider]]]

\* CoreInstanceHelper.set_provider and CoreApplicationHelper.set_provider
\* (the two bodies are the same).
set_provider(self, provider) ==
    IF provider \notin DOMAIN self.AVAILABLE_PROVIDERS
    THEN [raised |-> "ValueError", self |-> self]
    ELSE [raised |-> "none",
          self |-> [self EXCEPT
                      !.provider = self.AVAILABLE_PROVIDERS[provider]]]

\* The machine argument of set_machine: a ProviderMachine object (by its
\* key) or a string.
MachineObject(pk) == [kind |-> "object", name |-> None, pk |-> pk]
MachineName(n) == [kind |-> "name", name |-> n, pk |-> NoId]

\* A faulty set_machine that falls back to 'ubuntu'.
set_machine_Default(self, machine) ==
    IF machine.kind = "object"
    THEN [raised |-> "none", self |-> [self EXCEPT !.machine = machine.pk]]
    ELSE IF machine.name \notin DOMAIN self.AVAILABLE_MACHINES
         THEN [raised |-> "none",
               self |-> [self EXCEPT
                           !.machine = self.AVAILABLE_MACHINES["ubuntu"]]]
         ELSE [raised |-> "none",
               self |-> [self EXCEPT
                           !.machine = self.AVAILABLE_MACHINES[machine.name]]]

\* CoreInstanceHelper.set_machine(machine).
set_machine(self, machine) ==
    IF machine.kind = "object"
    THEN [raised |-> "none", self |-> [self EXCEPT !.machine = machine.pk]]
    ELSE IF machine.name \notin DOMAIN self.AVAILABLE_MACHINES
         THEN [raised |-> "ValueError", self |-> self]
         ELSE [raised |-> "none",
               self |-> [self EXCEPT
                           !.machine = self.AVAILABLE_MACHINES[machine.name]]]

\* ubuntu = _new_provider_machine("ubuntu", "1.0", self.identity)
ipm_ubuntu(f) ==
    [f EXCEPT !.ubuntu = new_provider_machine(f.w, "ubuntu", "1.0",
                             f.self.identity, NoIdentifier)]

\* centos = _new_provider_machine("centos", "1.0", self.identity)
ipm_centos(f) ==
    [f EXCEPT !.centos = new_provider_machine(f.ubuntu.w, "centos", "1.0",
                             f.self.identity, NoIdentifier)]

\* self.AVAILABLE_MACHINES = {"ubuntu": ubuntu, "centos": centos}
ipm_return(f) ==
    [w |-> f.centos.w,
     self |-> [f.self EXCEPT !.AVAILABLE_MACHINES =
                  [ubuntu |-> f.ubuntu.ret, centos |-> f.centos.ret]]]

\* CoreInstanceHelper._init_provider_machines().
init_provider_machines(w, self) ==
    ipm_return(ipm_centos(ipm_ubuntu(
        [w |-> w, self |-> self, ubuntu |-> NoId, centos |-> NoId])))

\* self.AVAILABLE_PROVIDERS = _new_providers()
WithProviders(f, r) ==
    [f EXCEPT !.w = r.w, !.self.AVAILABLE_PROVIDERS = r.ret]

\* identity_member = _new_mock_identity_member(username, self.provider)
WithIdentityMember(f, r) ==
    [f EXCEPT !.w = r.w, !.identity_member = r.ret]

\* self.identity = identity_member.identity
\* self.user = self.identity.created_by
WithIdentity(f, identity) ==
    [f EXCEPT !.self.identity = identity,
              !.self.user = f.w.tables["Identity"][identity].created_by]

\* A called function's world and self taken into the caller's frame.
WithSelf(f, r) == [f EXCEPT !.w = r.w, !.self = r.self]

cih_providers(f) ==
    Then(f, WithProviders(f, new_providers(f.w)))

cih_set_provider(f) ==
    Then(f, Called(f, set_provider(f.self, f.provider)))

cih_identity_member(f) ==
    Then(f, WithIdentityMember(f,
        new_mock_identity_member(f.w, f.username, f.self.provider)))

cih_identity(f) ==
    Then(f, WithIdentity(f,
        f.w.tables["IdentityMembership"][f.identity_member].identity))

cih_init_provider_machines(f) ==
    Then(f, WithSelf(f, init_provider_machines(f.w, f.self)))

cih_set_machine(f) ==
    Then(f, Called(f, set_machine(f.self, f.machine)))

\* CoreInstanceHelper.__init__(name, provider_alias, start_date, provider,
\* machine, username).  An exception leaves the constructor at once; what
\* was written to the database before it stays.
CoreInstanceHelper_init(w, name, provider_alias, start_date, provider, machine, username) ==
    cih_set_machine(cih_init_provider_machines(cih_identity(
        cih_identity_member(cih_set_provider(cih_providers(
        [w |-> w, provider |-> provider, machine |-> machine,
         username |-> username, identity_member |-> NoId,
         self |-> [BlankInstanceHelper EXCEPT !.name = name,
                      !.provider_alias = provider_alias,
                      !.start_date = start_date]]))))))

\* The keyword arguments of to_core_instance's get_or_create.  token is
\* 'unique-test-token-%s' % name, kept as the format and its argument.
InstanceKw(w, self) ==
    [name |-> self.name, provider_alias |-> self.provider_alias,
     source |-> w.tables["ProviderMachine"][self.machine].instance_source,
     ip_address |-> "1.2.3.4", created_by |-> self.user,
     created_by_identity |-> self.identity,
     token |-> <<"unique-test-token-%s", self.name>>,
     password |-> "password", shell |-> FALSE,
     start_date |-> self.start_date]

\* A faulty to_core_instance that creates an Instance on every call.
to_core_instance_Create(w, self) ==
    AlwaysCreate(w, "Instance", InstanceKw(w, self))

\* CoreInstanceHelper.to_core_instance().
to_core_instance(w, self) ==
    GetOrCreate(w, "Instance", InstanceKw(w, self))

(***************************************************************************)
(* CoreStatusHistoryHelper.                                                *)
(***************************************************************************)
\* size_params of _init_sizes: name, alias, CPU, MEM, DISK/ROOT.
size_params ==
    << <<"1", "tiny", 1, 1024 * 2, 0>>,
       <<"2", "small", 2, 1024 * 4, 0>>,
       <<"3", "medium", 4, 1024 * 8, 0>>,
       <<"4", "large", 8, 1024 * 16, 0>> >>

\* The keyword arguments of _init_sizes' get_or_create for one entry.
SizeKw(s_params, provider) ==
    [name |-> s_params[1], alias |-> s_params[2], cpu |-> s_params[3],
     mem |-> s_params[4], disk |-> s_params[5], root |-> s_params[5],
     provider |-> provider]

BlankStatusHelper ==
    [instance |-> NoId, status_name |-> None,
     AVAILABLE_SIZES |-> EmptyRegistry, size |-> NoId, start_date |-> 0]

\* A faulty lookup that creates the Size on every call.
core_size_Create(w, s_params, provider) ==
    AlwaysCreate(w, "Size", SizeKw(s_params, provider))

\* core_size of _init_sizes: Size.objects.get_or_create(...)[0] for one
\* entry of size_params.
core_size(w, s_params, provider) ==
    GetOrCreate(w, "Size", SizeKw(s_params, provider))

\* self.AVAILABLE_SIZES[alias] = core_size
WithSize(f, alias, r) ==
    [f EXCEPT !.w = r.w,
              !.self.AVAILABLE_SIZES =
                  [a \in DOMAIN @ \cup {alias} |->
                      IF a = alias THEN r.id ELSE @[a]]]

\* The for loop of _init_sizes, from entry n of size_params on.
RECURSIVE InitSizesFrom(_, _, _)
InitSizesFrom(f, provider, n) ==
    IF n > Len(size_params) THEN f
    ELSE InitSizesFrom(
             WithSize(f, size_params[n][2],
                      core_size(f.w, size_params[n], provider)),
             provider, n + 1)

\* CoreStatusHistoryHelper._init_sizes(provider).
init_sizes(w, self, provider) ==
    InitSizesFrom(
        [w |-> w, self |-> [self EXCEPT !.AVAILABLE_SIZES = EmptyRegistry]],
        provider, 1)

\* A faulty set_size that falls back to 'small'.
set_size_Default(self, size_name) ==
    IF size_name \notin DOMAIN self.AVAILABLE_SIZES
    THEN [raised |-> "none",
          self |-> [self EXCEPT !.size = self.AVAILABLE_SIZES["small"]]]
    ELSE [raised |-> "none",
          self |-> [self EXCEPT !.size = self.AVAILABLE_SIZES[size_name]]]

\* CoreStatusHistoryHelper.set_size(size_name).
set_size(self, size_name) ==
    IF size_name \notin DOMAIN self.AVAILABLE_SIZES
    THEN [raised |-> "ValueError", self |-> self]
    ELSE [raised |-> "none",
          self |-> [self EXCEPT !.size = self.AVAILABLE_SIZES[size_name]]]

\* CoreStatusHistoryHelper.set_start_date(start_date).
set_start_date(self, start_date) ==
    [self EXCEPT !.start_date = start_date]

\* instance.provider_machine.provider: the provider of the instance's
\* source.
InstanceProvider(w, instance) ==
    w.tables["InstanceSource"][w.tables["Instance"][instance].source].provider

\* An argument left out of a call takes the default of the signature.
Omitted == "<omitted>"
WithDefault(arg, default) == IF arg = Omitted THEN default ELSE arg

\* self._init_sizes(instance.provider_machine.provider)
csh_init_sizes(f) ==
    Then(f, WithSelf(f,
        init_sizes(f.w, f.self, InstanceProvider(f.w, f.instance))))

\* self.instance = instance; self.status_name = status_name
csh_fields(f) ==
    Then(f, [f EXCEPT !.self.instance = f.instance,
                      !.self.status_name = f.status_name])

csh_set_size(f) ==
    Then(f, Called(f, set_size(f.self, f.size_name)))

csh_set_start_date(f) ==
    Then(f, [f EXCEPT !.self = set_start_date(f.self, f.start_date)])

\* The body of CoreStatusHistoryHelper.__init__, the arguments given.
CoreStatusHistoryHelper_body(w, instance, start_date, status_name, size_name) ==
    csh_set_start_date(csh_set_size(csh_fields(csh_init_sizes(
        [w |-> w, instance |-> instance, start_date |-> start_date,
         status_name |-> status_name, size_name |-> size_name,
         self |-> BlankStatusHelper]))))

\* A faulty constructor whose size_name defaults to 'tiny'.
CoreStatusHistoryHelper_init_Tiny(w, instance, start_date, status_name, size_name) ==
    CoreStatusHistoryHelper_body(w, instance, start_date,
        WithDefault(status_name, "active"), WithDefault(size_name, "tiny"))

\* CoreStatusHistoryHelper.__init__(instance, start_date,
\* status_name='active', size_name='small').
CoreStatusHistoryHelper_init(w, instance, start_date, status_name, size_name) ==
    CoreStatusHistoryHelper_body(w, instance, start_date,
        WithDefault(status_name, "active"), WithDefault(size_name, "small"))

(***************************************************************************)
(* CoreApplicationHelper.                                                  *)
(***************************************************************************)
BlankApplicationHelper ==
    [AVAILABLE_PROVIDERS |-> EmptyRegistry, provider |-> NoId,
     identity |-> NoId, user |-> NoId, application |-> NoId,
     start_date |-> 0]

\* db_machine = _new_provider_machine("Test Machine", "1.0-test",
\*                                    self.identity)
WithMachine(f, r) == [f EXCEPT !.w = r.w, !.db_machine = r.ret]

cah_db_machine(f) ==
    Then(f, WithMachine(f, new_provider_machine(f.w, "Test Machine",
                               "1.0-test", f.self.identity, NoIdentifier)))

\* db_machine.application_version.application
MachineApplication(w, machine) ==
    w.tables["ApplicationVersion"]
        [w.tables["ProviderMachine"][machine].application_version].application

\* self.application = db_machine.application_version.application
\* self.start_date = start_date
cah_fields(f) ==
    Then(f, [f EXCEPT
                !.self.application = MachineApplication(f.w, f.db_machine),
                !.self.start_date = f.start_date])

\* CoreApplicationHelper.__init__(name, start_date, provider, username);
\* name is not used by the body.
CoreApplicationHelper_init(w, name, start_date, provider, username) ==
    cah_fields(cah_db_machine(cih_identity(cih_identity_member(
        cih_set_provider(cih_providers(
        [w |-> w, provider |-> provider, username |-> username,
         start_date |-> start_date, identity_member |-> NoId,
         db_machine |-> NoId, self |-> BlankApplicationHelper]))))))

(***************************************************************************)
(* The fixture calls a test makes, one action per call.                    *)
(***************************************************************************)
MaxCalls == 2
MaxStatusHelpers == 2
MaxInstances == 2

InstanceNames == {"inst1"}
ProviderAliases == {"alias1"}
StartDates == {1}
Usernames == {"mock_user"}
ValidProviders == {"openstack", "workshop"}
ProviderArgs == ValidProviders \cup {"bogus"}
MachineNames == {"ubuntu", "centos", "bogus"}
SizeArgs == {Omitted, "tiny", "bogus"}
StatusArgs == {Omitted}
Versions == {"1.0"}

\* The machines a test can pass: the names, and a ProviderMachine object
\* (the first of the table).
MachineArgs ==
    {MachineName(n) : n \in MachineNames}
    \cup {MachineObject(pk) : pk \in 1..Len(db["ProviderMachine"]) \cap {1}}

\* The database, the uuid4 count and the call log take the world's values.
Commit(w) ==
    /\ db' = w.tables
    /\ uuids' = w.uuids
    /\ pmLog' = w.log

\* The constructor's frame f: the object joins helpers unless the
\* constructor raised.
Constructed(helpers, f) ==
    IF f.w.raised = "none" THEN Append(helpers, f.self) ELSE helpers

InstanceHelperMade(f) ==
    /\ Commit(f.w)
    /\ instHelpers' = Constructed(instHelpers, f)
    /\ raised' = f.w.raised

\* helper = CoreInstanceHelper(name, provider_alias, start_date, provider,
\* machine, username)
NewInstanceHelper(name, provider_alias, start_date, provider, machine, username) ==
    /\ calls < MaxCalls
    /\ calls' = calls + 1
    /\ InstanceHelperMade(
           CoreInstanceHelper_init(World, name, provider_alias, start_date,
                                   provider, machine, username))
    /\ UNCHANGED <<statusHelpers, appHelpers>>
    /\ UNCHANGED <<bookmarkVars, adminVars>>

InstanceProviderSet(h, r) ==
    /\ instHelpers' = [instHelpers EXCEPT ![h] = r.self]
    /\ raised' = r.raised

\* instHelpers[h].set_provider(provider)
InstanceSetProvider(h, provider) ==
    /\ h \in 1..Len(instHelpers)
    /\ InstanceProviderSet(h, set_provider(instHelpers[h], provider))
    /\ UNCHANGED <<db, uuids, pmLog, calls, statusHelpers, appHelpers>>
    /\ UNCHANGED <<bookmarkVars, adminVars>>

\* The history fields are cleared when another machine is selected.
InstanceMachineSet(h, r) ==
    /\ instHelpers' = [instHelpers EXCEPT ![h] =
           IF r.self.machine = instHelpers[h].machine THEN r.self
           ELSE [r.self EXCEPT !.ret = NoId, !.again = FALSE]]
    /\ raised' = r.raised

\* instHelpers[h].set_machine(machine)
InstanceSetMachine(h, machine) ==
    /\ h \in 1..Len(instHelpers)
    /\ InstanceMachineSet(h, set_machine(instHelpers[h], machine))
    /\ UNCHANGED <<db, uuids, pmLog, calls, statusHelpers, appHelpers>>
    /\ UNCHANGED <<bookmarkVars, adminVars>>

CoreInstanceReturned(h, r) ==
    /\ Len(r.w.tables["Instance"]) <= MaxInstances
    /\ Commit(r.w)
    /\ instHelpers' = [instHelpers EXCEPT
           ![h].ret = r.id,
           ![h].again = (instHelpers[h].ret # NoId)]
    /\ raised' = r.w.raised

\* instHelpers[h].to_core_instance()
ToCoreInstance(h) ==
    /\ h \in 1..Len(instHelpers)
    /\ CoreInstanceReturned(h, to_core_instance(World, instHelpers[h]))
    /\ UNCHANGED <<calls, statusHelpers, appHelpers>>
    /\ UNCHANGED <<bookmarkVars, adminVars>>

StatusHelperMade(f) ==
    /\ Commit(f.w)
    /\ statusHelpers' = Constructed(statusHelpers, f)
    /\ raised' = f.w.raised

\* helper = CoreStatusHistoryHelper(instance, start_date[, status_name]
\* [, size_name]).  The sizes a construction adds are the same on every
\* call, so only the helpers kept are counted.
NewStatusHelper(instance, start_date, status_name, size_name) ==
    /\ Len(statusHelpers) < MaxStatusHelpers
    /\ instance \in 1..Len(db["Instance"])
    /\ StatusHelperMade(
           CoreStatusHistoryHelper_init(World, instance, start_date,
                                        status_name, size_name))
    /\ UNCHANGED <<calls, instHelpers, appHelpers>>
    /\ UNCHANGED <<bookmarkVars, adminVars>>

SizeSet(h, r) ==
    /\ statusHelpers' = [statusHelpers EXCEPT ![h] = r.self]
    /\ raised' = r.raised

\* statusHelpers[h].set_size(size_name)
SetSize(h, size_name) ==
    /\ h \in 1..Len(statusHelpers)
    /\ SizeSet(h, set_size(statusHelpers[h], size_name))
    /\ UNCHANGED <<db, uuids, pmLog, calls, instHelpers, appHelpers>>
    /\ UNCHANGED <<bookmarkVars, adminVars>>

ApplicationHelperMade(f) ==
    /\ Commit(f.w)
    /\ appHelpers' = Constructed(appHelpers, f)
    /\ raised' = f.w.raised

\* helper = CoreApplicationHelper(name, start_date, provider, username)
NewApplicationHelper(name, start_date, provider, username) ==
    /\ calls < MaxCalls
    /\ calls' = calls + 1
    /\ ApplicationHelperMade(
           CoreApplicationHelper_init(World, name, start_date, provider,
                                      username))
    /\ UNCHANGED <<instHelpers, statusHelpers>>
    /\ UNCHANGED <<bookmarkVars, adminVars>>

ApplicationProviderSet(h, r) ==
    /\ appHelpers' = [appHelpers EXCEPT ![h] = r.self]
    /\ raised' = r.raised

\* appHelpers[h].set_provider(provider)
ApplicationSetProvider(h, provider) ==
    /\ h \in 1..Len(appHelpers)
    /\ ApplicationProviderSet(h, set_provider(appHelpers[h], provider))
    /\ UNCHANGED <<db, uuids, pmLog, calls, instHelpers, statusHelpers>>
    /\ UNCHANGED <<bookmarkVars, adminVars>>

ProviderMachineReturned(r) ==
    /\ Commit(r.w)
    /\ raised' = r.w.raised

\* _new_provider_machine(name, version, identity[, identifier]), called by
\* a test itself.
CallNewProviderMachine(name, version, identity, identifier) ==
    /\ calls < MaxCalls
    /\ calls' = calls + 1
    /\ identity \in 1..Len(db["Identity"])
    /\ ProviderMachineReturned(
           new_provider_machine(World, name, version, identity, identifier))
    /\ UNCHANGED <<instHelpers, statusHelpers, appHelpers>>
    /\ UNCHANGED <<bookmarkVars, adminVars>>

(***************************************************************************)
(* Part 3: ApplicationAdmin.save_model of core/admin.py.                   *)
(*                                                                         *)
(* applications is the Application table (id = index); a row holds the     *)
(* name and, for the many-to-many field of the form, the set of tags.      *)
(* The frame of a call holds the tables, the in-memory application the     *)
(* form builds, the many-to-many data the form holds back, and what the    *)
(* call did: whether save_app_to_metadata was called, how many records     *)
(* were logged and the exception in flight.                                *)
(***************************************************************************)
MaxApplications == 2
MaxLogged == 2

AppNames == {"app-a", "app-b"}
Tags == {"tag1"}
FormData == [name : AppNames, tags : SUBSET Tags]
MetadataOutcomes == {"ok", "Exception"}

\* application = form.save(commit=False): the form's instance with the
\* cleaned data assigned, not yet saved; the many-to-many data is kept for
\* save_m2m.
sm_form_save(f) ==
    [f EXCEPT !.application = [pk |-> f.obj, name |-> f.data.name],
              !.m2m = f.data.tags]

\* application.save(): an insert when the instance has no key, an update
\* of its row otherwise.
sm_application_save(f) ==
    IF f.application.pk = NoId
    THEN [f EXCEPT !.applications =
                       Append(@, [name |-> f.application.name, tags |-> {}]),
                   !.application.pk = Len(f.applications) + 1]
    ELSE [f EXCEPT !.applications[f.application.pk].name =
                       f.application.name]

\* form.save_m2m()
sm_save_m2m(f) ==
    [f EXCEPT !.applications[f.application.pk].tags = f.m2m]

\* save_app_to_metadata(application): writes the application's metadata, or
\* raises.
save_app_to_metadata(f) ==
    IF f.outcome = "ok"
    THEN [f EXCEPT !.attempted = TRUE,
                   !.metadata[f.application.pk] = f.application.name]
    ELSE [f EXCEPT !.attempted = TRUE, !.raised = f.outcome]

\* except Exception, e: logger.exception(...)
sm_except(f) ==
    IF f.raised = "Exception"
    THEN [f EXCEPT !.raised = "none", !.logged = @ + 1, !.logs = @ + 1]
    ELSE f

\* A faulty save_model that lets the exception through.
sm_metadata_NoTry(f) ==
    IF f.change THEN save_app_to_metadata(f) ELSE f

\* A faulty save_model that updates the metadata of a new application too.
sm_metadata_Always(f) ==
    sm_except(save_app_to_metadata(f))

\* if change: try: save_app_to_metadata(application) except ...
sm_metadata(f) ==
    IF f.change THEN sm_except(save_app_to_metadata(f)) ELSE f

\* return application: nothing is returned when an exception is in flight.
sm_return(f) ==
    [f EXCEPT !.ret = IF f.raised = "none" THEN f.application.pk ELSE NoId]

\* ApplicationAdmin.save_model(request, obj, form, change), with data the
\* form's cleaned data and outcome what save_app_to_metadata will do.
save_model(obj, data, change, outcome) ==
    sm_return(sm_metadata(sm_save_m2m(sm_application_save(sm_form_save(
        [applications |-> applications, metadata |-> metadata,
         logged |-> logged, obj |-> obj, data |-> data, change |-> change,
         outcome |-> outcome, application |-> [pk |-> NoId, name |-> None],
         m2m |-> {}, attempted |-> FALSE, logs |-> 0, raised |-> "none",
         ret |-> NoId])))))

\* The tables take the frame's values; the call and its outcome are kept.
ModelSaved(f) ==
    /\ applications' = f.applications
    /\ metadata' = f.metadata
    /\ logged' = f.logged
    /\ adminOp' = [name |-> "save_model", obj |-> f.obj, data |-> f.data,
                   change |-> f.change, outcome |-> f.outcome,
                   attempted |-> f.attempted, logs |-> f.logs,
                   raised |-> f.raised, ret |-> f.ret]

\* The admin's add view saves a new application: change is False.
AddApplication(data) ==
    /\ Len(applications) < MaxApplications
    /\ ModelSaved(save_model(NoId, data, FALSE, "ok"))
    /\ UNCHANGED <<bookmarkVars, fixtureVars, allocationVars, actionVars>>

\* The admin's change view saves an existing application: change is True.
ChangeApplication(obj, data, outcome) ==
    /\ obj \in 1..Len(applications)
    /\ outcome = "Exception" => logged < MaxLogged
    /\ ModelSaved(save_model(obj, data, TRUE, outcome))
    /\ UNCHANGED <<bookmarkVars, fixtureVars, allocationVars, actionVars>>

(***************************************************************************)
(* AllocationAdmin.threshold_str and delta_str: the list page shows an     *)
(* Allocation's threshold and delta, both numbers of minutes, as days,     *)
(* hours and minutes.  A text is the sequence of its pieces: the decimal   *)
(* digits of each number, one character each, and the words of the format  *)
(* string between them.                                                    *)
(***************************************************************************)
MaxMinutes == 3000

Minutes == 0..MaxMinutes
\* A week and a year of minutes, and the ends of an hour and of a day.
LongMinutes == {0, 59, 60, 1439, 1440, 10080, 525600}
Allocations ==
    [threshold : Minutes, delta : LongMinutes]
        \cup [threshold : LongMinutes, delta : Minutes]

\* timedelta(minutes=m): normalised to days and 0 <= seconds < 86400.
timedelta(minutes) ==
    [days |-> (minutes * 60) \div 86400, seconds |-> (minutes * 60) % 86400]

Digits == <<"0", "1", "2", "3", "4", "5", "6", "7", "8", "9">>

\* '%s' % n for an integer n >= 0: its decimal digits.
RECURSIVE Str(_)
Str(n) ==
    IF n < 10 THEN <<Digits[n + 1]>>
    ELSE Append(Str(n \div 10), Digits[(n % 10) + 1])

\* '%s days, %s hours, %s minutes' % (days, hours, minutes)
Format(days, hours, minutes) ==
    Str(days) \o <<" days, ">> \o Str(hours) \o <<" hours, ">>
        \o Str(minutes) \o <<" minutes">>

\* A faulty rendering that leaves out the % 60 of the minutes.
threshold_str_NoModulo(obj) ==
    LET td == timedelta(obj.threshold)
    IN Format(td.days, td.seconds \div 3600, td.seconds \div 60)

\* AllocationAdmin.threshold_str(obj)
threshold_str(obj) ==
    LET td == timedelta(obj.threshold)
    IN Format(td.days, td.seconds \div 3600, (td.seconds \div 60) % 60)

\* AllocationAdmin.delta_str(obj)
delta_str(obj) ==
    LET td == timedelta(obj.delta)
    IN Format(td.days, td.seconds \div 3600, (td.seconds \div 60) % 60)

\* The list page renders the Threshold column of the allocation.
ThresholdStr ==
    /\ display' = [name |-> "threshold_str", text |-> threshold_str(allocation)]
    /\ UNCHANGED allocation
    /\ UNCHANGED <<bookmarkVars, fixtureVars, applications, metadata, logged,
                   adminOp, actionVars>>

\* The list page renders the Delta column of the allocation.
DeltaStr ==
    /\ display' = [name |-> "delta_str", text |-> delta_str(allocation)]
    /\ UNCHANGED allocation
    /\ UNCHANGED <<bookmarkVars, fixtureVars, applications, metadata, logged,
                   adminOp, actionVars>>

(***************************************************************************)
(* The admin actions private_object and end_date_object.  The admin calls  *)
(* an action with the queryset of the rows selected on the list page,      *)
(* which the model holds as the set of their primary keys.  A row has a    *)
(* name, the private flag, a start date and an end date; NoDate is the     *)
(* null end date.                                                          *)
(***************************************************************************)
MaxRecords == 2
MaxClock == 2

NoDate == 0
RecordNames == {"rec"}

\* queryset.update(field=value): one UPDATE of that column in the rows of
\* the queryset.
queryset_update(rows, queryset, field, value) ==
    [i \in 1..Len(rows) |->
        IF i \in queryset THEN [rows[i] EXCEPT ![field] = value]
        ELSE rows[i]]

\* A faulty action that updates the whole table.
private_object_All(rows, queryset) ==
    queryset_update(rows, 1..Len(rows), "private", TRUE)

\* private_object(modeladmin, request, queryset)
private_object(rows, queryset) ==
    queryset_update(rows, queryset, "private", TRUE)

\* A faulty action that also makes the rows private.
end_date_object_Private(rows, queryset, time) ==
    queryset_update(queryset_update(rows, queryset, "end_date", time),
                    queryset, "private", TRUE)

\* end_date_object(modeladmin, request, queryset), with time what
\* timezone.now() returns.
end_date_object(rows, queryset, time) ==
    queryset_update(rows, queryset, "end_date", time)

\* A row is added to the table.
CreateRecord(name, private) ==
    /\ Len(records) < MaxRecords
    /\ records' = Append(records, [name |-> name, private |-> private,
                                   start_date |-> now, end_date |-> NoDate])
    /\ UNCHANGED <<now, adminAction>>
    /\ UNCHANGED <<bookmarkVars, fixtureVars, applications, metadata, logged,
                   adminOp, allocationVars>>

\* Time passes.
Tick ==
    /\ now < MaxClock
    /\ now' = now + 1
    /\ UNCHANGED <<records, adminAction>>
    /\ UNCHANGED <<bookmarkVars, fixtureVars, applications, metadata, logged,
                   adminOp, allocationVars>>

\* The administrator runs 'Make objects private True' on a selection.
PrivateObject(queryset) ==
    /\ queryset \subseteq 1..Len(records)
    /\ records' = private_object(records, queryset)
    /\ adminAction' = [name |-> "private_object", queryset |-> queryset]
    /\ UNCHANGED now
    /\ UNCHANGED <<bookmarkVars, fixtureVars, applications, metadata, logged,
                   adminOp, allocationVars>>

\* The administrator runs 'Add end-date to objects' on a selection.
EndDateObject(queryset) ==
    /\ queryset \subseteq 1..Len(records)
    /\ records' = end_date_object(records, queryset, now)
    /\ adminAction' = [name |-> "end_date_object", queryset |-> queryset]
    /\ UNCHANGED now
    /\ UNCHANGED <<bookmarkVars, fixtureVars, applications, metadata, logged,
                   adminOp, allocationVars>>

(***************************************************************************)
(* Initial state and specifications.                                       *)
(***************************************************************************)
BookmarkInit ==
    /\ bookmarks = << >>
    /\ requests = << >>

FixtureInit ==
    /\ db = EmptyDb
    /\ instHelpers = << >>
    /\ statusHelpers = << >>
    /\ appHelpers = << >>
    /\ uuids = 0
    /\ calls = 0
    /\ pmLog = << >>
    /\ raised = "none"

NoMetadata == [pk \in 1..MaxApplications |-> None]

AdminInit ==
    /\ applications = << >>
    /\ metadata = NoMetadata
    /\ logged = 0
    /\ adminOp = [name |-> "none", obj |-> NoId,
                  data |-> [name |-> None, tags |-> {}], change |-> FALSE,
                  outcome |-> "ok", attempted |-> FALSE, logs |-> 0,
                  raised |-> "none", ret |-> NoId]

NothingDisplayed == [name |-> "none", text |-> << >>]

AllocationInit ==
    /\ allocation = [threshold |-> 0, delta |-> 0]
    /\ display = NothingDisplayed

ActionInit ==
    /\ records = << >>
    /\ now = 1
    /\ adminAction = [name |-> "none", queryset |-> {}]

Init ==
    /\ BookmarkInit
    /\ FixtureInit
    /\ AdminInit
    /\ AllocationInit
    /\ ActionInit

\* The list page of any one allocation.
InitAllocation ==
    /\ BookmarkInit
    /\ FixtureInit
    /\ AdminInit
    /\ allocation \in Allocations
    /\ display = NothingDisplayed
    /\ ActionInit

\* Bookmark requests whose steps interleave.
Next ==
    \/ \E i \in Images, u \in Users : Validate(i, u)
    \/ \E k \in 1..MaxRequests : Insert(k)

Spec == Init /\ [][Next]_vars

\* Bookmark requests processed one after another.
NextInTurn ==
    \/ \E i \in Images, u \in Users : ValidateInTurn(i, u)
    \/ \E k \in 1..MaxRequests : Insert(k)

SpecInTurn == Init /\ [][NextInTurn]_vars

\* A test of the factories and of CoreInstanceHelper: helpers are made with
\* any machine, machines are selected, instances are made and
\* _new_provider_machine is called.
NextFixture ==
    \/ \E name \in InstanceNames, alias \in ProviderAliases,
          start_date \in StartDates, machine \in MachineArgs,
          username \in Usernames :
          NewInstanceHelper(name, alias, start_date, "openstack", machine,
                            username)
    \/ \E h \in 1..MaxCalls, machine \in MachineArgs :
          InstanceSetMachine(h, machine)
    \/ \E h \in 1..MaxCalls : ToCoreInstance(h)
    \/ \E name \in {"ubuntu"}, version \in Versions,
          identity \in 1..Len(db["Identity"]),
          identifier \in {NoIdentifier} \cup ExplicitIdentifiers :
          CallNewProviderMachine(name, version, identity, identifier)

SpecFixture == Init /\ [][NextFixture]_vars

\* The providers no instance helper has selected.
ProvidersNotInUse ==
    {p \in ValidProviders :
        \A h \in 1..Len(instHelpers) :
            instHelpers[h].provider # instHelpers[h].AVAILABLE_PROVIDERS[p]}

\* A test of CoreStatusHistoryHelper: an instance is made on either
\* provider and status helpers are made for them with any size name.
NextSizes ==
    \/ \E name \in InstanceNames, alias \in ProviderAliases,
          start_date \in StartDates, provider \in ProvidersNotInUse,
          username \in Usernames :
          NewInstanceHelper(name, alias, start_date, provider,
                            MachineName("ubuntu"), username)
    \/ \E h \in 1..MaxCalls : ToCoreInstance(h)
    \/ \E instance \in 1..Len(db["Instance"]), start_date \in StartDates,
          status_name \in StatusArgs, size_name \in SizeArgs :
          NewStatusHelper(instance, start_date, status_name, size_name)
    \/ \E h \in 1..MaxStatusHelpers, size_name \in SizeArgs \ {Omitted} :
          SetSize(h, size_name)

SpecSizes == Init /\ [][NextSizes]_vars

\* A test of the setters: one helper of each class is made with its default
\* arguments, and every setter is called with every name.
NextSetters ==
    \/ \E name \in InstanceNames, alias \in ProviderAliases,
          start_date \in StartDates, username \in Usernames :
          /\ instHelpers = << >>
          /\ NewInstanceHelper(name, alias, start_date, "openstack",
                               MachineName("ubuntu"), username)
    \/ \E h \in 1..MaxCalls : ToCoreInstance(h)
    \/ \E instance \in 1..Len(db["Instance"]), start_date \in StartDates,
          status_name \in StatusArgs :
          NewStatusHelper(instance, start_date, status_name, Omitted)
    \/ \E name \in InstanceNames, start_date \in StartDates,
          username \in Usernames :
          /\ appHelpers = << >>
          /\ NewApplicationHelper(name, start_date, "openstack", username)
    \/ \E h \in 1..MaxCalls, provider \in ProviderArgs :
          InstanceSetProvider(h, provider)
    \/ \E h \in 1..MaxCalls, machine \in MachineArgs :
          InstanceSetMachine(h, machine)
    \/ \E h \in 1..MaxStatusHelpers, size_name \in SizeArgs \ {Omitted} :
          SetSize(h, size_name)
    \/ \E h \in 1..MaxCalls, provider \in ProviderArgs :
          ApplicationSetProvider(h, provider)

SpecSetters == Init /\ [][NextSetters]_vars

\* The saves an administrator makes.
NextAdmin ==
    \/ \E data \in FormData : AddApplication(data)
    \/ \E obj \in 1..MaxApplications, data \in FormData,
          outcome \in MetadataOutcomes :
          ChangeApplication(obj, data, outcome)

SpecAdmin == Init /\ [][NextAdmin]_vars

\* The columns of the allocation list page, rendered in any order.
NextAllocation ==
    \/ ThresholdStr
    \/ DeltaStr

SpecAllocation == InitAllocation /\ [][NextAllocation]_vars

\* The administrator adds rows and runs the two actions on any selection,
\* while time passes.
NextActions ==
    \/ \E name \in RecordNames, private \in BOOLEAN :
          CreateRecord(name, private)
    \/ Tick
    \/ \E queryset \in SUBSET (1..MaxRecords) : PrivateObject(queryset)
    \/ \E queryset \in SUBSET (1..MaxRecords) : EndDateObject(queryset)

SpecActions == Init /\ [][NextActions]_vars

(***************************************************************************)
(* The properties checked.                                                 *)
(***************************************************************************)
SamePair(a, b) == a.image = b.image /\ a.user = b.user

\* C1: when the requests are processed one after another, the first
\* request for an (image, user) pair passes validation and inserts its
\* bookmark, and every later request for the pair is rejected with the
\* validation error and inserts nothing; no bookmark has another origin.
C1_FirstCreatesLaterRejected ==
    /\ \A k \in 1..Len(requests) :
          IF \E j \in 1..(k - 1) : SamePair(requests[j], requests[k])
          THEN /\ requests[k].state = "rejected"
               /\ requests[k].raised = "ValidationError"
               /\ requests[k].inserted = NoId
          ELSE /\ requests[k].state \in {"validated", "created"}
               /\ requests[k].ret = requests[k].image
               /\ NoneInFlight => requests[k].state = "created"
    /\ Len(bookmarks) =
           Cardinality({k \in 1..Len(requests) : requests[k].inserted # NoId})

\* A pair was requested twice: the first request created the bookmark and
\* the second was rejected.
C1_Witness ==
    \E j, k \in 1..Len(requests) :
        /\ j < k
        /\ SamePair(requests[j], requests[k])
        /\ requests[j].state = "created"
        /\ requests[k].state = "rejected"

\* C2: the bookmark table never holds two rows of the same (image, user)
\* pair, however the steps of the requests interleave.
C2_PairsUnique ==
    \A a, b \in 1..Len(bookmarks) :
        (bookmarks[a].application = bookmarks[b].application
         /\ bookmarks[a].user = bookmarks[b].user) => a = b

\* The bookmarks without those of image j by user v.
Without(rows, j, v) ==
    LET Other(row) == ~(row.application = j /\ row.user = v)
    IN SelectSeq(rows, Other)

\* C3: the outcome of validate_image for a pair is the same with and
\* without the bookmarks of any other pair, and validation of a pair that
\* has no bookmark returns the image.
C3_PairsIndependent ==
    \A i \in Images, u \in Users :
        /\ \A j \in Images, v \in Users :
              <<i, u>> # <<j, v>> =>
                  /\ validate_image(bookmarks, i, u)
                       = validate_image(Without(bookmarks, j, v), i, u)
                  /\ validate_image(bookmarks, i, u)
                       = validate_image(Append(bookmarks,
                             [application |-> j, user |-> v]), i, u)
        /\ Matching(bookmarks, [application |-> i, user |-> u]) = {}
               => validate_image(bookmarks, i, u)
                      = [raised |-> "none", ret |-> i]

\* An image bookmarked by one user was then bookmarked by another user,
\* and the first user then bookmarked another image.
C3_Witness ==
    \E j, k, l \in 1..Len(requests) :
        /\ requests[j].state = "created"
        /\ requests[k].state = "created"
        /\ requests[l].state = "created"
        /\ requests[k].image = requests[j].image
        /\ requests[k].user # requests[j].user
        /\ requests[k].seen >= requests[j].inserted
        /\ requests[l].user = requests[j].user
        /\ requests[l].image # requests[j].image
        /\ requests[l].seen >= requests[j].inserted

\* C4: a validate_image that ran with one or more bookmarks of its image
\* and user in the table raised the validation error; one that ran with
\* none returned the image.
C4_ValidationErrorWhenFound ==
    \A k \in 1..Len(requests) :
        IF requests[k].matches >= 1
        THEN requests[k].raised = "ValidationError"
        ELSE requests[k].raised = "none"
             /\ requests[k].ret = requests[k].image

\* C5: a call of _new_provider_machine with the name, version and identity
\* of an earlier call, neither given an identifier, returns the machine the
\* earlier call returned and adds no row.
C5_SameMachineReturned ==
    \A j, k \in 1..Len(pmLog) :
        (/\ j < k
         /\ pmLog[j].name = pmLog[k].name
         /\ pmLog[j].version = pmLog[k].version
         /\ pmLog[j].identity = pmLog[k].identity
         /\ pmLog[j].identifier = NoIdentifier
         /\ pmLog[k].identifier = NoIdentifier)
        => (pmLog[k].ret = pmLog[j].ret /\ pmLog[k].added = 0)

\* C6: a call of to_core_instance on a helper that has returned an Instance
\* for the machine it has selected returns that Instance again, raises
\* nothing and leaves the database as it is.
C6_SameInstanceReturned ==
    [][\A h \in 1..Len(instHelpers) :
          (ToCoreInstance(h) /\ instHelpers[h].ret # NoId)
          => /\ db' = db
             /\ instHelpers'[h].ret = instHelpers[h].ret
             /\ raised' = "none"]_vars

\* A helper whose to_core_instance was called more than once, with the one
\* Instance the calls made.
C6_Witness ==
    \E h \in 1..Len(instHelpers) :
        /\ instHelpers[h].again
        /\ instHelpers[h].ret \in 1..Len(db["Instance"])
        /\ Cardinality(Matching(db["Instance"],
                                InstanceKw(World, instHelpers[h]))) = 1

SizeAliases == {"tiny", "small", "medium", "large"}

\* The provider of the instance a status helper was made for.
HelperProvider(h) == InstanceProvider(World, statusHelpers[h].instance)

\* C7: a provider that has Size rows has exactly four, one of each alias,
\* and two status helpers for instances of one provider have the same
\* AVAILABLE_SIZES.
C7_FourSizesPerProvider ==
    /\ \A p \in 1..Len(db["Provider"]) :
          LET sizes == Matching(db["Size"], [provider |-> p]) IN
          sizes # {} =>
              /\ Cardinality(sizes) = 4
              /\ \A a \in SizeAliases :
                    Cardinality({i \in sizes : db["Size"][i].alias = a}) = 1
    /\ \A g, h \in 1..Len(statusHelpers) :
          /\ DOMAIN statusHelpers[h].AVAILABLE_SIZES = SizeAliases
          /\ HelperProvider(g) = HelperProvider(h)
                => statusHelpers[g].AVAILABLE_SIZES
                       = statusHelpers[h].AVAILABLE_SIZES

\* Two status helpers were made for instances of one provider.
C7_Witness ==
    \E g, h \in 1..Len(statusHelpers) :
        g # h /\ HelperProvider(g) = HelperProvider(h)

\* C8: a setter called with a name that is not a key of the helper's
\* registry raises ValueError and leaves the helpers as they are.
C8_UnknownNameRaises ==
    [][/\ \A h \in 1..Len(statusHelpers), n \in SizeArgs :
             (SetSize(h, n)
              /\ n \notin DOMAIN statusHelpers[h].AVAILABLE_SIZES)
             => (raised' = "ValueError" /\ statusHelpers' = statusHelpers)
       /\ \A h \in 1..Len(instHelpers), n \in ProviderArgs :
             (InstanceSetProvider(h, n)
              /\ n \notin DOMAIN instHelpers[h].AVAILABLE_PROVIDERS)
             => (raised' = "ValueError" /\ instHelpers' = instHelpers)
       /\ \A h \in 1..Len(instHelpers), n \in MachineNames :
             (InstanceSetMachine(h, MachineName(n))
              /\ n \notin DOMAIN instHelpers[h].AVAILABLE_MACHINES)
             => (raised' = "ValueError" /\ instHelpers' = instHelpers)
       /\ \A h \in 1..Len(appHelpers), n \in ProviderArgs :
             (ApplicationSetProvider(h, n)
              /\ n \notin DOMAIN appHelpers[h].AVAILABLE_PROVIDERS)
             => (raised' = "ValueError" /\ appHelpers' = appHelpers)]_vars

\* A setter has raised ValueError (no constructor of this test does) on
\* helpers of every class, each with its size, provider or machine
\* selected.
C8_Witness ==
    /\ raised = "ValueError"
    /\ \E h \in 1..Len(statusHelpers) : statusHelpers[h].size # NoId
    /\ \E h \in 1..Len(instHelpers) :
          instHelpers[h].provider # NoId /\ instHelpers[h].machine # NoId
    /\ \E h \in 1..Len(appHelpers) : appHelpers[h].provider # NoId

\* The (cpu, mem) of each alias of the catalog.
ExpectedSizes ==
    [tiny |-> <<1, 2048>>, small |-> <<2, 4096>>, medium |-> <<4, 8192>>,
     large |-> <<8, 16384>>]

\* The catalog of a status helper, in the database tables.
CatalogOf(tables, self) ==
    /\ DOMAIN self.AVAILABLE_SIZES = SizeAliases
    /\ \A a \in SizeAliases :
          LET size == tables["Size"][self.AVAILABLE_SIZES[a]] IN
          /\ size.alias = a
          /\ <<size.cpu, size.mem>> = ExpectedSizes[a]
          /\ size.disk = 0
          /\ size.root = 0

\* C9: after every call, the catalog of every status helper is tiny, small,
\* medium, large with (cpu, mem) = (1, 2048), (2, 4096), (4, 8192),
\* (8, 16384) and disk = root = 0; and a helper just constructed without a
\* size_name has the small size selected.
C9_SizeCatalog ==
    [][/\ \A h \in 1..Len(statusHelpers') :
             CatalogOf(db', statusHelpers'[h])
       /\ \A instance \in 1..Len(db["Instance"]), start_date \in StartDates,
             status_name \in StatusArgs :
             (NewStatusHelper(instance, start_date, status_name, Omitted)
              /\ raised' = "none")
             => /\ Len(statusHelpers') = Len(statusHelpers) + 1
                /\ LET self == statusHelpers'[Len(statusHelpers')] IN
                   self.size = self.AVAILABLE_SIZES["small"]]_vars

\* A status helper with the small size selected: in this test only a
\* constructor without size_name selects it.
C9_Witness ==
    \E h \in 1..Len(statusHelpers) :
        /\ CatalogOf(db, statusHelpers[h])
        /\ statusHelpers[h].size = statusHelpers[h].AVAILABLE_SIZES["small"]

\* C10: save_model returns the application with no error, its row holding
\* the form's name and tags; it calls save_app_to_metadata only when change
\* is true, and an exception of that call is logged, not raised.
C10_SaveCompletes ==
    adminOp.name = "save_model" =>
        /\ adminOp.raised = "none"
        /\ adminOp.ret \in 1..Len(applications)
        /\ adminOp.obj # NoId => adminOp.ret = adminOp.obj
        /\ applications[adminOp.ret]
               = [name |-> adminOp.data.name, tags |-> adminOp.data.tags]
        /\ adminOp.attempted => adminOp.change
        /\ (adminOp.attempted /\ adminOp.outcome = "Exception")
               => adminOp.logs = 1
        /\ adminOp.logs = 1 => adminOp.outcome = "Exception"

\* A change was saved while save_app_to_metadata raised.
C10_Witness ==
    /\ adminOp.name = "save_model"
    /\ adminOp.change
    /\ adminOp.attempted
    /\ adminOp.outcome = "Exception"
    /\ adminOp.logs = 1
    /\ logged >= 1

\* The number a sequence of decimal digits writes.
RECURSIVE Decimal(_)
Decimal(digits) ==
    IF digits = << >> THEN 0
    ELSE Decimal(SubSeq(digits, 1, Len(digits) - 1)) * 10
             + ((CHOOSE d \in 1..10 : Digits[d] = digits[Len(digits)]) - 1)

IsNumber(piece) ==
    /\ piece # << >>
    /\ \A i \in 1..Len(piece) : \E d \in 1..10 : Digits[d] = piece[i]

\* The place of a word in a text that holds it once; 0 when it does not.
PlaceOf(text, word) ==
    IF Cardinality({i \in 1..Len(text) : text[i] = word}) = 1
    THEN CHOOSE i \in 1..Len(text) : text[i] = word
    ELSE 0

\* The text reads "<d> days, <h> hours, <n> minutes" with d, h and n the
\* days, hours and minutes that make up m minutes.
ReadsAs(text, m) ==
    LET p1 == PlaceOf(text, " days, ")
        p2 == PlaceOf(text, " hours, ")
        p3 == PlaceOf(text, " minutes")
        days == SubSeq(text, 1, p1 - 1)
        hours == SubSeq(text, p1 + 1, p2 - 1)
        mins == SubSeq(text, p2 + 1, p3 - 1)
    IN /\ 0 < p1 /\ p1 < p2 /\ p2 < p3 /\ p3 = Len(text)
       /\ IsNumber(days) /\ IsNumber(hours) /\ IsNumber(mins)
       /\ Decimal(days) * 1440 + Decimal(hours) * 60 + Decimal(mins) = m
       /\ Decimal(hours) < 24
       /\ Decimal(mins) < 60

\* C11: the text threshold_str renders for an allocation reads d days,
\* h hours, n minutes with d*1440 + h*60 + n the allocation's threshold,
\* h < 24 and n < 60; the text delta_str renders does so for its delta.
C11_DaysHoursMinutes ==
    /\ display.name = "threshold_str"
           => ReadsAs(display.text, allocation.threshold)
    /\ display.name = "delta_str"
           => ReadsAs(display.text, allocation.delta)

\* A threshold of more than a day, an hour and a minute has been rendered.
C11_Witness ==
    /\ display.name = "threshold_str"
    /\ allocation.threshold > 1440 + 60 + 1
    /\ allocation.threshold % 1440 > 60
    /\ allocation.threshold % 60 > 0
    /\ display.text = threshold_str(allocation)

\* Row i is the same before and after the step in every field but one.
OthersKept(i, field) ==
    \A f \in {"name", "private", "start_date", "end_date"} \ {field} :
        records'[i][f] = records[i][f]

\* C12: a private_object step sets private to True in the selected rows
\* and changes no other field and no other row, and running it again on
\* the result changes nothing; an end_date_object step sets end_date to the
\* current time in the selected rows and changes no other field and no
\* other row.  Neither adds or removes a row.
C12_OnlySelectedRowsOneField ==
    [][\A queryset \in SUBSET (1..MaxRecords) :
          /\ PrivateObject(queryset)
                => /\ Len(records') = Len(records)
                   /\ \A i \in 1..Len(records) :
                         IF i \in queryset
                         THEN records'[i].private = TRUE
                              /\ OthersKept(i, "private")
                         ELSE records'[i] = records[i]
                   /\ private_object(records', queryset) = records'
          /\ EndDateObject(queryset)
                => /\ Len(records') = Len(records)
                   /\ \A i \in 1..Len(records) :
                         IF i \in queryset
                         THEN records'[i].end_date = now
                              /\ OthersKept(i, "end_date")
                         ELSE records'[i] = records[i]]_vars

\* An action has run on a selection of some but not all rows, at a time
\* later than the rows were made: a selected row is private and has the
\* end date, a row outside the selection is not private and has none.
C12_Witness ==
    /\ adminAction.name \in {"private_object", "end_date_object"}
    /\ \E i, j \in 1..Len(records) :
          /\ i \in adminAction.queryset
          /\ j \notin adminAction.queryset
          /\ records[i].private
          /\ records[i].end_date = now
          /\ records[i].start_date < now
          /\ ~records[j].private
          /\ records[j].end_date = NoDate

====
